---- MODULE Spec2Model ----
(***************************************************************************)
(* Model of the recommendation backend (src/app/main.py, services.py,      *)
(* db.py, models.py).                                                      *)
(*                                                                         *)
(* One POST /recommendations request is in flight at a time (the client    *)
(* issues requests one after the other); inside a request the nutrient     *)
(* lookups created by asyncio.gather interleave freely at their await      *)
(* points.  The process-wide state is the alru_cache memo of               *)
(* get_gemini_recommendations, the nutrition_cache table and the clock.    *)
(* The clock counts days.  The nutrition_cache table outlives the process  *)
(* (init_db only creates what is missing), so a run may start on rows       *)
(* written earlier.                                                        *)
(*                                                                         *)
(* services.py imports USDA_API_KEY from app.config, which does not define *)
(* it; the model describes the handlers as they are written and takes the  *)
(* module as loaded.                                                       *)
(***************************************************************************)
EXTENDS Integers, Sequences, FiniteSets, TLC

VARIABLES
    now,          \* the clock, in days
    store,        \* rows of the nutrition_cache table
    memo,         \* alru_cache of get_gemini_recommendations, least recent first
    req,          \* the request being handled (or the last one handled)
    pc,           \* position of the endpoint coroutine
    genCalls,     \* generate_content calls made for req
    gemini_data,  \* get_recommendations' local gemini_data
    tasks,        \* the get_usda_nutrition_data coroutines of the gather
    response,     \* what the endpoint returned for req
    issue,        \* when req was issued, and whether it repeats the request before it
    first         \* the response to the request before, while req repeats it

vars == <<now, store, memo, req, pc, genCalls, gemini_data, tasks, response, issue, first>>

-----------------------------------------------------------------------------
(* Bounds of the model and constants of the program                        *)

MaxTime == 40
TickDays == 20

NUTRITION_CACHE_TTL_DAYS == 30
ALRU_MAXSIZE == 128

\* services.py:21 imports only datetime and timedelta from datetime, so the
\* global name timezone used at lines 150, 224 and 235 is not bound.
TimezoneImported == FALSE

-----------------------------------------------------------------------------
(* Values                                                                  *)

\* float | None
None == [some |-> FALSE, v |-> 0]
Some(x) == [some |-> TRUE, v |-> x]

NutrientFields == {"calories", "protein", "carbohydrates", "fat", "sugar", "sodium"}

_create_default_nutrients == [f \in NutrientFields |-> None]

-----------------------------------------------------------------------------
(* JSON documents the generative service can send                          *)

NoneCountry == "<None>"

FullFood(n, r) == [t |-> "dict", keys |-> {"name", "reason"}, name |-> n, reason |-> r]
NoNameFood(r) == [t |-> "dict", keys |-> {"reason"}, name |-> "", reason |-> r]
NoReasonFood(n) == [t |-> "dict", keys |-> {"name"}, name |-> n, reason |-> ""]
NotADict == [t |-> "str", keys |-> {}, name |-> "", reason |-> ""]
\* {"name": null, "reason": r}
NullNameFood(r) == [t |-> "dict", keys |-> {"name", "reason"}, name |-> NoneCountry, reason |-> r]

FullPrinciple(p, e) ==
    [t |-> "dict", keys |-> {"principle", "explanation"}, principle |-> p, explanation |-> e]
NoExplanation(p) ==
    [t |-> "dict", keys |-> {"principle"}, principle |-> p, explanation |-> ""]

JList(items) == [t |-> "list", items |-> items]
JNull == [t |-> "null", items |-> <<>>]

JObject(has, rec, avoid, princ) ==
    [j |-> "object", has |-> has,
     recommended_foods |-> rec, foods_to_avoid |-> avoid, dietary_principles |-> princ]

AllKeys == {"recommended_foods", "foods_to_avoid", "dietary_principles"}

\* a JSON value that is no object (an array, a number, a string, null)
JArray == [j |-> "array", has |-> {},
           recommended_foods |-> JNull, foods_to_avoid |-> JNull, dietary_principles |-> JNull]

\* what json.loads could not decode
NotJson == [j |-> "invalid", has |-> {},
            recommended_foods |-> JNull, foods_to_avoid |-> JNull, dietary_principles |-> JNull]

EmptyPayload == JObject(AllKeys, JList(<<>>), JList(<<>>), JList(<<>>))

DocPlain == JObject(AllKeys, JList(<<FullFood("A", "r1")>>), JList(<<FullFood("B", "r2")>>),
                    JList(<<FullPrinciple("p1", "e1")>>))
DocShift == JObject(AllKeys, JList(<<NoNameFood("r1"), FullFood("A", "r1")>>),
                    JList(<<FullFood("B", "r2")>>), JList(<<NoExplanation("p1")>>))
DocDup == JObject(AllKeys, JList(<<FullFood("A", "r1")>>), JList(<<FullFood("A", "r2")>>),
                  JList(<<>>))
\* {}
DocNoKeys == JObject({}, JNull, JNull, JNull)
\* no "foods_to_avoid" key
DocLenient == JObject({"recommended_foods", "dietary_principles"},
                      JList(<<NoReasonFood("A"), FullFood("B", "r1"), NotADict>>),
                      JNull,
                      JList(<<NoExplanation("p1"), FullPrinciple("p2", "e2")>>))
DocNullList == JObject(AllKeys, JList(<<FullFood("A", "r1")>>), JList(<<>>), JNull)
DocNullName == JObject(AllKeys, JList(<<NullNameFood("r1")>>), JList(<<>>), JList(<<>>))

Docs == {DocPlain, DocShift, DocDup, DocLenient, DocNoKeys, DocNullList, DocNullName, JArray}

\* response.text of generate_content: empty, or text that may hold one
\* ```json fence around `inner` and may have prose around it
GeminiTexts ==
    {[empty |-> TRUE, fenced |-> FALSE, prose |-> FALSE, inner |-> NotJson]}
    \cup {[empty |-> FALSE, fenced |-> FALSE, prose |-> TRUE, inner |-> NotJson]}
    \cup {[empty |-> FALSE, fenced |-> TRUE, prose |-> TRUE, inner |-> d] : d \in Docs}
    \cup {[empty |-> FALSE, fenced |-> FALSE, prose |-> FALSE, inner |-> d] : d \in Docs}
    \cup {[empty |-> FALSE, fenced |-> FALSE, prose |-> TRUE, inner |-> DocPlain]}

-----------------------------------------------------------------------------
(* get_gemini_recommendations: parsing of the reply                        *)

\* re.search(r"```json\s*([\s\S]*?)\s*```", text): the fenced block when there
\* is one, else the whole text, which is JSON only when nothing surrounds it
clean_json_response(text) ==
    IF text.fenced THEN text.inner
    ELSE IF text.prose THEN NotJson
    ELSE text.inner

\* lines 92-104: an empty reply and a JSONDecodeError give the empty payload,
\* any other decoded value is returned as it is
ParseReply(text) ==
    IF text.empty THEN EmptyPayload
    ELSE LET parsed_data == clean_json_response(text)
         IN  IF parsed_data.j = "invalid" THEN EmptyPayload ELSE parsed_data

-----------------------------------------------------------------------------
(* alru_cache(maxsize=128): a list of [key, val], least recently used first *)

MemoKeys == {memo[k].key : k \in 1..Len(memo)}

MemoGet(key) == (CHOOSE k \in 1..Len(memo) : memo[k].key = key)

MemoTouch(key) ==
    LET k == MemoGet(key)
    IN  SelectSeq(memo, LAMBDA e : e.key # key) \o <<memo[k]>>

\* a cache that admits nothing new once it is full
MemoPutUnlessFull(key, val) ==
    IF Len(memo) >= ALRU_MAXSIZE THEN memo
    ELSE SelectSeq(memo, LAMBDA e : e.key # key) \o <<[key |-> key, val |-> val]>>

MemoPut(key, val) ==
    LET added == SelectSeq(memo, LAMBDA e : e.key # key) \o <<[key |-> key, val |-> val]>>
    IN  IF Len(added) > ALRU_MAXSIZE THEN Tail(added) ELSE added

-----------------------------------------------------------------------------
(* The nutrition service and get_usda_nutrition_data                       *)

Num(x) == [t |-> "num", v |-> x]        \* a JSON number
NumStr(x) == [t |-> "str", v |-> x]     \* a string that float() accepts
Text == [t |-> "text", v |-> 0]         \* a non-empty string that float() rejects
Null == [t |-> "null", v |-> 0]         \* null, or no "amount" key

Nutrient(n, a) == [nutrientName |-> n, amount |-> a]

NoFoods == [status |-> "ok", foods |-> <<>>]
HttpError == [status |-> "error", foods |-> <<>>]
FoodsOne == [status |-> "ok", foods |-> <<
    <<Nutrient("Energy", Num(52)), Nutrient("Protein", NumStr(3)),
      Nutrient("Fiber, total dietary", Num(2))>> >>]
FoodsTwo == [status |-> "ok", foods |-> <<
    <<Nutrient("Total lipid (fat)", Num(7)), Nutrient("Sodium, Na", Text),
      Nutrient("Sugars, total including NLEA", Null),
      Nutrient("Carbohydrate, by difference", Num(0)), Nutrient("Protein", NumStr(0))>> >>]

UsdaReplies == {HttpError, NoFoods, FoodsOne, FoodsTwo}

\* float(amount) if amount else None, ValueError and TypeError giving None
_extract_nutrient_value(nutrient_data) ==
    LET amount == nutrient_data.amount
    IN  IF amount.t = "null" THEN None
        ELSE IF amount.t = "num" THEN (IF amount.v # 0 THEN Some(amount.v) ELSE None)
        ELSE IF amount.t = "str" THEN Some(amount.v)
        ELSE None

nutrient_map ==
    [n \in {"Energy", "Protein", "Carbohydrate, by difference", "Total lipid (fat)",
            "Sugars, total including NLEA", "Sodium, Na"} |->
        CASE n = "Energy" -> "calories"
          [] n = "Protein" -> "protein"
          [] n = "Carbohydrate, by difference" -> "carbohydrates"
          [] n = "Total lipid (fat)" -> "fat"
          [] n = "Sugars, total including NLEA" -> "sugar"
          [] n = "Sodium, Na" -> "sodium"]

\* the loop of lines 198-203 over foodNutrients
RECURSIVE FillNutrients(_, _)
FillNutrients(foodNutrients, nutrients_result) ==
    IF foodNutrients = <<>> THEN nutrients_result
    ELSE LET nutrient_item == Head(foodNutrients)
             nutrient_name == nutrient_item.nutrientName
         IN  FillNutrients(Tail(foodNutrients),
                 IF nutrient_name \in DOMAIN nutrient_map
                 THEN [nutrients_result EXCEPT ![nutrient_map[nutrient_name]] =
                          _extract_nutrient_value(nutrient_item)]
                 ELSE nutrients_result)

Row(food_name, data, last_updated) ==
    [food_name |-> food_name, data |-> data, last_updated |-> last_updated]

RowsFor(table, food_name) == {r \in table : r.food_name = food_name}

\* datetime.now(timezone.utc): the name timezone is looked up first
UtcNow == IF TimezoneImported THEN [raised |-> "", at |-> now]
          ELSE [raised |-> "NameError", at |-> 0]

\* lines 139-162: the cache check; every exception is printed and the lookup
\* goes on to the service
ReadCache(food_name, dbOk) ==
    LET rows == RowsFor(store, food_name)
        miss(e) == [err |-> e, hit |-> FALSE, data |-> _create_default_nutrients]
    IN  IF ~dbOk THEN miss("OperationalError")
        ELSE IF rows = {} THEN miss("")
        ELSE LET cached == CHOOSE r \in rows : TRUE
             IN  IF UtcNow.raised # "" THEN miss(UtcNow.raised)
                 ELSE IF cached.last_updated > UtcNow.at - NUTRITION_CACHE_TTL_DAYS
                      THEN [err |-> "", hit |-> TRUE, data |-> cached.data]
                      ELSE miss("")

\* lines 215-242 after the select: update or add the row and commit; every
\* exception rolls back.  [err, table]
WriteCache(food_name, nutrients_result, existing, selectErr, dbOk) ==
    LET rollback(e) == [err |-> e, table |-> store]
    IN  IF selectErr # "" THEN rollback(selectErr)
        ELSE IF UtcNow.raised # "" THEN rollback(UtcNow.raised)
        ELSE IF ~dbOk THEN rollback("OperationalError")
        ELSE IF existing
             THEN [err |-> "",
                   table |-> {IF r.food_name = food_name
                              THEN Row(food_name, nutrients_result, UtcNow.at) ELSE r
                              : r \in store}]
             ELSE IF RowsFor(store, food_name) # {} \/ food_name = NoneCountry
                  THEN rollback("IntegrityError")
                  ELSE [err |-> "",
                        table |-> store \cup {Row(food_name, nutrients_result, UtcNow.at)}]

\* the write's exception reaching the handler of lines 249-251
SaveReturnUnlessRaised(nutrients_result, err) ==
    IF err # "" THEN _create_default_nutrients ELSE nutrients_result

\* lines 240-244: the write's exception is swallowed and nutrients_result returned
SaveReturn(nutrients_result, err) == nutrients_result

\* a get_usda_nutrition_data coroutine: its position, its locals (the pending
\* exception e of the cache check and of the save's select, existing,
\* nutrients_result), what it returned, and what it did (hit: answered from
\* the cache; called: sent the search; failed: the search raised; put: ran
\* the save block; saveFailed,
\* conflict: the save block raised, raised IntegrityError; afterPut: its
\* cache check came after the save block of another lookup of the same name)
NewTask(food_name) ==
    [name |-> food_name, pc |-> "read", readErr |-> "", hit |-> FALSE, afterPut |-> FALSE,
     called |-> FALSE, failed |-> FALSE, nutrients_result |-> _create_default_nutrients,
     existing |-> FALSE, selectErr |-> "", put |-> FALSE, saveFailed |-> FALSE,
     conflict |-> FALSE, result |-> _create_default_nutrients]

-----------------------------------------------------------------------------
(* get_recommendations                                                     *)

\* gemini_data.get(key, [])
Get(d, key) == IF key \in d.has THEN d[key] ELSE JList(<<>>)

HasName(item) == item.t = "dict" /\ "name" \in item.keys
IsFood(item) == item.t = "dict" /\ "name" \in item.keys /\ "reason" \in item.keys
IsPrinciple(item) ==
    item.t = "dict" /\ "principle" \in item.keys /\ "explanation" \in item.keys

NamesIn(items) ==
    LET named == SelectSeq(items, HasName)
    IN  [k \in 1..Len(named) |-> named[k].name]

\* lines 266-273: [raised, food_names].  .get on a value that is no object is
\* an AttributeError, a for loop over null a TypeError
CollectNames(d) ==
    IF d.j # "object" THEN [raised |-> "AttributeError", food_names |-> <<>>]
    ELSE IF Get(d, "recommended_foods").t # "list" \/ Get(d, "foods_to_avoid").t # "list"
         THEN [raised |-> "TypeError", food_names |-> <<>>]
         ELSE [raised |-> "",
               food_names |-> NamesIn(Get(d, "recommended_foods").items)
                              \o NamesIn(Get(d, "foods_to_avoid").items)]

FoodItem(item, nutrition_data) ==
    [name |-> item.name, reason |-> item.reason, nutrients |-> nutrition_data]

DietaryPrinciple(item) == [principle |-> item.principle, explanation |-> item.explanation]

\* models.py 19-20: name: str and reason: str refuse None (ValidationError)
Validates(item) == item.name # NoneCountry /\ item.reason # NoneCountry

\* nutrition_results[i] if i < len(nutrition_results) else None, then the
\* default profile for whatever is no dict; index counts from 0
NutritionAt(nutrition_results, index) ==
    IF index < Len(nutrition_results) THEN nutrition_results[index + 1]
    ELSE _create_default_nutrients

\* the loops of lines 283-307 and 314-341 over one list, start_index being 0
\* for the recommended list and len(recommended_items) for the avoided one
FoodItems(items, start_index, nutrition_results) ==
    LET kept == SelectSeq([k \in 1..Len(items) |-> k], LAMBDA k : IsFood(items[k]))
    IN  [n \in 1..Len(kept) |->
            FoodItem(items[kept[n]],
                     NutritionAt(nutrition_results, start_index + kept[n] - 1))]

Principles(items) ==
    LET kept == SelectSeq(items, IsPrinciple)
    IN  [n \in 1..Len(kept) |-> DietaryPrinciple(kept[n])]

Reply(status, rec, avoid, princ) ==
    [status |-> status, recommended_foods |-> rec, foods_to_avoid |-> avoid,
     dietary_principles |-> princ]

NoResponse == Reply(0, <<>>, <<>>, <<>>)
HTTPException(status) == Reply(status, <<>>, <<>>, <<>>)

\* an assembly that answers 200 with the lists built before an exception
AssembleBuiltSoFar(d, nutrition_results) ==
    LET recommended_items == Get(d, "recommended_foods").items
        avoid_items == Get(d, "foods_to_avoid").items
    IN  Reply(200,
              FoodItems(SelectSeq(recommended_items, Validates), 0, nutrition_results),
              FoodItems(SelectSeq(avoid_items, Validates), Len(recommended_items),
                        nutrition_results),
              Principles(Get(d, "dietary_principles").items))

\* lines 279-354 and main.py 57-64: the response built from the gathered
\* results, or the 500 of an exception raised on the way (the ValidationError
\* of a FoodItem, the TypeError of iterating null)
Assemble(d, nutrition_results) ==
    LET recommended_items == Get(d, "recommended_foods").items
        avoid_items == Get(d, "foods_to_avoid").items
        built == SelectSeq(recommended_items \o avoid_items, IsFood)
    IN  IF \E k \in DOMAIN built : ~Validates(built[k]) THEN HTTPException(500)
        ELSE IF Get(d, "dietary_principles").t # "list" THEN HTTPException(500)
        ELSE Reply(200,
                   FoodItems(recommended_items, 0, nutrition_results),
                   FoodItems(avoid_items, Len(recommended_items), nutrition_results),
                   Principles(Get(d, "dietary_principles").items))

-----------------------------------------------------------------------------
(* Requests                                                                *)

Request(search_type, value, country) ==
    [search_type |-> search_type, value |-> value, country |-> country]

Requests == {Request("condition", "", NoneCountry),
             Request("condition", "diabetes", NoneCountry),
             Request("goal", "diabetes", "NG")}

NoRequest == Request("", "-", NoneCountry)

\* a check that only refuses a missing value
RejectedWhenMissing(request) == request.value = NoneCountry

\* main.py 52: if not request.value
Rejected(request) == request.value = ""

InitStores == {{}, {Row("A", FillNutrients(FoodsOne.foods[1], _create_default_nutrients), 0)}}

Init ==
    /\ now = 0
    /\ store \in InitStores
    /\ memo = <<>>
    /\ req = NoRequest
    /\ pc = "idle"
    /\ genCalls = 0
    /\ gemini_data = EmptyPayload
    /\ tasks = <<>>
    /\ response = NoResponse
    /\ issue = [at |-> 0, repeat |-> FALSE]
    /\ first = NoResponse

-----------------------------------------------------------------------------
(* Actions                                                                 *)

\* services.py 265-277 once gemini_data is there: the names are collected and
\* one lookup per name is handed to asyncio.gather; an exception raised on
\* the way becomes the endpoint's 500 (main.py 60-64)
Enrich(d) ==
    LET collected == CollectNames(d)
    IN  /\ gemini_data' = d
        /\ IF collected.raised # ""
           THEN /\ tasks' = <<>>
                /\ pc' = "done"
                /\ response' = HTTPException(500)
           ELSE /\ tasks' = [k \in 1..Len(collected.food_names) |->
                                NewTask(collected.food_names[k])]
                /\ pc' = "enrich"
                /\ response' = NoResponse

\* a handler that starts the lookups for the names of the payload it last
\* held while the generative call is still awaited
ReceiveEager(request) ==
    /\ pc \in {"idle", "done"}
    /\ req' = request
    /\ LET again == /\ pc = "done"
                    /\ request = req
                    /\ response.status = 200
                    /\ now - issue.at < NUTRITION_CACHE_TTL_DAYS
       IN  /\ issue' = [at |-> now, repeat |-> again]
           /\ first' = IF again THEN response ELSE NoResponse
    /\ IF Rejected(request)
       THEN /\ response' = HTTPException(400)
            /\ pc' = "done"
            /\ genCalls' = 0
            /\ tasks' = <<>>
            /\ gemini_data' = EmptyPayload
            /\ memo' = memo
       ELSE IF request \in MemoKeys
            THEN /\ genCalls' = 0
                 /\ memo' = MemoTouch(request)
                 /\ Enrich(memo[MemoGet(request)].val)
            ELSE /\ genCalls' = 1
                 /\ pc' = "generate"
                 /\ tasks' = [k \in 1..Len(CollectNames(gemini_data).food_names) |->
                                 NewTask(CollectNames(gemini_data).food_names[k])]
                 /\ gemini_data' = EmptyPayload
                 /\ response' = NoResponse
                 /\ memo' = memo
    /\ UNCHANGED <<now, store>>

\* main.py 47-58 and the alru_cache lookup of services.py 37: an empty value
\* is refused, a memoized key goes on without a call, any other key calls
\* the generative service
Receive(request) ==
    /\ pc \in {"idle", "done"}
    /\ req' = request
    /\ LET again == /\ pc = "done"
                    /\ request = req
                    /\ response.status = 200
                    /\ now - issue.at < NUTRITION_CACHE_TTL_DAYS
       IN  /\ issue' = [at |-> now, repeat |-> again]
           /\ first' = IF again THEN response ELSE NoResponse
    /\ IF Rejected(request)
       THEN /\ response' = HTTPException(400)
            /\ pc' = "done"
            /\ genCalls' = 0
            /\ tasks' = <<>>
            /\ gemini_data' = EmptyPayload
            /\ memo' = memo
       ELSE IF request \in MemoKeys
            THEN /\ genCalls' = 0
                 /\ memo' = MemoTouch(request)
                 /\ Enrich(memo[MemoGet(request)].val)
            ELSE /\ genCalls' = 1
                 /\ pc' = "generate"
                 /\ tasks' = <<>>
                 /\ gemini_data' = EmptyPayload
                 /\ response' = NoResponse
                 /\ memo' = memo
    /\ UNCHANGED <<now, store>>

\* services.py 89-104: generate_content returned; the parsed value is
\* memoized under the request's key
GeminiReturns(text) ==
    /\ pc = "generate"
    /\ memo' = MemoPut(req, ParseReply(text))
    /\ Enrich(ParseReply(text))
    /\ UNCHANGED <<now, store, req, genCalls, issue, first>>

\* a call that is sent again when it raised
GeminiRaisesRetry ==
    /\ pc = "generate"
    /\ genCalls < 2
    /\ genCalls' = genCalls + 1
    /\ UNCHANGED <<now, store, memo, req, pc, gemini_data, tasks, response, issue, first>>

\* an except clause that catches every exception of the call and degrades to
\* the empty payload
GeminiRaisesCaught ==
    /\ pc = "generate"
    /\ Enrich(EmptyPayload)
    /\ UNCHANGED <<now, store, memo, req, genCalls, issue, first>>

\* services.py 89 raising anything but JSONDecodeError or AttributeError:
\* nothing is memoized and main.py 60-64 answers 500
GeminiRaises ==
    /\ pc = "generate"
    /\ pc' = "done"
    /\ response' = HTTPException(500)
    /\ UNCHANGED <<now, store, memo, req, genCalls, gemini_data, tasks, issue, first>>

\* services.py 139-162
CacheRead(i, dbOk) ==
    /\ pc = "enrich"
    /\ tasks[i].pc = "read"
    /\ LET t == tasks[i]
           got == ReadCache(t.name, dbOk)
           later == \E j \in DOMAIN tasks :
                        /\ j # i
                        /\ tasks[j].name = t.name
                        /\ tasks[j].put
       IN  tasks' = [tasks EXCEPT ![i] =
                [t EXCEPT !.readErr = got.err, !.hit = got.hit, !.afterPut = later,
                          !.result = got.data,
                          !.pc = IF got.hit THEN "done" ELSE "http"]]
    /\ UNCHANGED <<now, store, memo, req, pc, genCalls, gemini_data, response, issue, first>>

\* a lookup that goes on to the save with the default profile when the
\* search failed or found nothing
UsdaReturnsSavesUnknown(i, reply) ==
    /\ pc = "enrich"
    /\ tasks[i].pc = "http"
    /\ LET t == tasks[i]
       IN  tasks' = [tasks EXCEPT ![i] =
                [t EXCEPT !.called = TRUE, !.pc = "save", !.readErr = "",
                          !.failed = reply.status = "error",
                          !.nutrients_result =
                              IF reply.status = "error" \/ reply.foods = <<>>
                              THEN _create_default_nutrients
                              ELSE FillNutrients(reply.foods[1], _create_default_nutrients)]]
    /\ UNCHANGED <<now, store, memo, req, pc, genCalls, gemini_data, response, issue, first>>

\* services.py 173-203 and 246-251: the search call returned or failed
UsdaReturns(i, reply) ==
    /\ pc = "enrich"
    /\ tasks[i].pc = "http"
    /\ LET t == tasks[i]
       IN  tasks' = [tasks EXCEPT ![i] =
                IF reply.status = "error" \/ reply.foods = <<>>
                THEN [t EXCEPT !.called = TRUE, !.pc = "done", !.readErr = "",
                               !.failed = reply.status = "error",
                               !.result = _create_default_nutrients]
                ELSE [t EXCEPT !.called = TRUE, !.pc = "save", !.readErr = "",
                               !.nutrients_result =
                                   FillNutrients(reply.foods[1], _create_default_nutrients)]]
    /\ UNCHANGED <<now, store, memo, req, pc, genCalls, gemini_data, response, issue, first>>

\* services.py 206-213: the select of the save
SaveSelect(i, dbOk) ==
    /\ pc = "enrich"
    /\ tasks[i].pc = "save"
    /\ LET t == tasks[i]
       IN  tasks' = [tasks EXCEPT ![i] =
                [t EXCEPT !.pc = "commit",
                          !.existing = dbOk /\ RowsFor(store, t.name) # {},
                          !.selectErr = IF dbOk THEN "" ELSE "OperationalError"]]
    /\ UNCHANGED <<now, store, memo, req, pc, genCalls, gemini_data, response, issue, first>>

\* services.py 215-244: the commit or the rollback, and the return
SaveFinish(i, dbOk) ==
    /\ pc = "enrich"
    /\ tasks[i].pc = "commit"
    /\ LET t == tasks[i]
           wrote == WriteCache(t.name, t.nutrients_result, t.existing, t.selectErr, dbOk)
       IN  /\ store' = wrote.table
           /\ tasks' = [tasks EXCEPT ![i] =
                  [t EXCEPT !.pc = "done", !.put = TRUE, !.existing = FALSE,
                            !.selectErr = "", !.saveFailed = wrote.err # "",
                            !.conflict = wrote.err = "IntegrityError",
                            !.result = SaveReturn(t.nutrients_result, wrote.err)]]
    /\ UNCHANGED <<now, memo, req, pc, genCalls, gemini_data, response, issue, first>>

\* a join that returns as soon as one lookup has returned
GatherFirstCompleted ==
    /\ pc = "enrich"
    /\ \E i \in DOMAIN tasks : tasks[i].pc = "done"
    /\ response' = Assemble(gemini_data, [i \in DOMAIN tasks |-> tasks[i].result])
    /\ pc' = "done"
    /\ UNCHANGED <<now, store, memo, req, genCalls, gemini_data, tasks, issue, first>>

\* services.py 277-354: gather returns once every lookup has returned, and
\* the response is assembled
Gather ==
    /\ pc = "enrich"
    /\ \A i \in DOMAIN tasks : tasks[i].pc = "done"
    /\ response' = Assemble(gemini_data, [i \in DOMAIN tasks |-> tasks[i].result])
    /\ pc' = "done"
    /\ UNCHANGED <<now, store, memo, req, genCalls, gemini_data, tasks, issue, first>>

Tick ==
    /\ now + TickDays <= MaxTime
    /\ now' = now + TickDays
    /\ UNCHANGED <<store, memo, req, pc, genCalls, gemini_data, tasks, response, issue, first>>

Next ==
    \/ \E request \in Requests : Receive(request)
    \/ \E text \in GeminiTexts : GeminiReturns(text)
    \/ GeminiRaises
    \/ \E i \in DOMAIN tasks, dbOk \in BOOLEAN : CacheRead(i, dbOk)
    \/ \E i \in DOMAIN tasks, reply \in UsdaReplies : UsdaReturns(i, reply)
    \/ \E i \in DOMAIN tasks, dbOk \in BOOLEAN : SaveSelect(i, dbOk)
    \/ \E i \in DOMAIN tasks, dbOk \in BOOLEAN : SaveFinish(i, dbOk)
    \/ Gather
    \/ Tick

Spec == Init /\ [][Next]_vars

\* The process after 128 requests with distinct keys, each answered with the
\* empty payload after a reply that held no JSON: the memo is full and the
\* key of Request("condition", "diabetes", None) is the least recently used.
\* From there the generative service degrades or fails.
OtherRequest(k) == Request("country", ToString(k), NoneCountry)

FullMemo ==
    <<[key |-> Request("condition", "diabetes", NoneCountry), val |-> EmptyPayload]>>
    \o [k \in 1..(ALRU_MAXSIZE - 1) |-> [key |-> OtherRequest(k), val |-> EmptyPayload]]

InitFull ==
    /\ now = 0
    /\ store = {}
    /\ memo = FullMemo
    /\ req = NoRequest
    /\ pc = "idle"
    /\ genCalls = 0
    /\ gemini_data = EmptyPayload
    /\ tasks = <<>>
    /\ response = NoResponse
    /\ issue = [at |-> 0, repeat |-> FALSE]
    /\ first = NoResponse

DegradedTexts == {text \in GeminiTexts : ParseReply(text) = EmptyPayload}

NextFull ==
    \/ \E request \in Requests \cup {OtherRequest(1), OtherRequest(ALRU_MAXSIZE)} :
          Receive(request)
    \/ \E text \in DegradedTexts : GeminiReturns(text)
    \/ GeminiRaises
    \/ Gather

SpecFull == InitFull /\ [][NextFull]_vars

\* the steps of the request in flight: every awaited call (generate_content,
\* the table, the search) returns or raises, and the event loop runs every
\* coroutine that can go on
RequestStep ==
    \/ \E text \in GeminiTexts : GeminiReturns(text)
    \/ GeminiRaises
    \/ \E i \in DOMAIN tasks, dbOk \in BOOLEAN : CacheRead(i, dbOk)
    \/ \E i \in DOMAIN tasks, reply \in UsdaReplies : UsdaReturns(i, reply)
    \/ \E i \in DOMAIN tasks, dbOk \in BOOLEAN : SaveSelect(i, dbOk)
    \/ \E i \in DOMAIN tasks, dbOk \in BOOLEAN : SaveFinish(i, dbOk)
    \/ Gather

-----------------------------------------------------------------------------
(* Claims                                                                  *)

Ttl == NUTRITION_CACHE_TTL_DAYS

\* C1: a request whose value is empty is answered 400 at once, and handling
\* it makes no generative call, starts no nutrient lookup and touches
\* neither the memo nor the nutrition_cache table.
C1_EmptyValueRejected ==
    [][req'.value = "" =>
          /\ pc' = "done"
          /\ response' = HTTPException(400)
          /\ genCalls' = 0
          /\ tasks' = <<>>
          /\ memo' = memo
          /\ store' = store]_vars

C1_Witness ==
    /\ req.value = ""
    /\ pc = "done"
    /\ response.status = 400
    /\ memo # <<>>

\* the lookup issued for the entry at position k of `items`, `before` being
\* the entries of the list that precedes it: lookups are issued in payload
\* order, one per entry that has a name
OwnLookup(before, items, k) == Len(NamesIn(before)) + Len(NamesIn(SubSeq(items, 1, k)))

OwnFoodItems(before, items) ==
    LET kept == SelectSeq([k \in 1..Len(items) |-> k], LAMBDA k : IsFood(items[k]))
    IN  [n \in 1..Len(kept) |->
            FoodItem(items[kept[n]], tasks[OwnLookup(before, items, kept[n])].result)]

\* C2: in every response each food item carries the profile that the lookup
\* issued for its own entry returned.
C2_OwnProfile ==
    (pc = "done" /\ response.status = 200) =>
        LET recommended_items == Get(gemini_data, "recommended_foods").items
            avoid_items == Get(gemini_data, "foods_to_avoid").items
        IN  /\ response.recommended_foods = OwnFoodItems(<<>>, recommended_items)
            /\ response.foods_to_avoid = OwnFoodItems(recommended_items, avoid_items)

\* C3: when a lookup of the batch failed and the payload is one that can be
\* assembled, the request still succeeds, every
\* well-formed entry is in the response, the entry of a failed lookup with
\* all six fields unknown and every other entry with what its lookup returned.
C3_FailureIsolated ==
    (/\ pc = "done"
     /\ \E i \in DOMAIN tasks : tasks[i].failed
     /\ CollectNames(gemini_data).raised = ""
     /\ Get(gemini_data, "dietary_principles").t = "list"
     /\ \A key \in {"recommended_foods", "foods_to_avoid"} :
           \A k \in DOMAIN Get(gemini_data, key).items :
               IsFood(Get(gemini_data, key).items[k]) =>
                   Validates(Get(gemini_data, key).items[k])) =>
        LET recommended_items == Get(gemini_data, "recommended_foods").items
            avoid_items == Get(gemini_data, "foods_to_avoid").items
            own(before, items) ==
                LET kept == SelectSeq([k \in 1..Len(items) |-> k],
                                      LAMBDA k : IsFood(items[k]))
                IN  [n \in 1..Len(kept) |->
                       LET lookup == tasks[OwnLookup(before, items, kept[n])]
                       IN  FoodItem(items[kept[n]],
                                    IF lookup.failed THEN _create_default_nutrients
                                    ELSE lookup.result)]
        IN  /\ response.status = 200
            /\ response.recommended_foods = own(<<>>, recommended_items)
            /\ response.foods_to_avoid = own(recommended_items, avoid_items)

\* C4: a request that repeats the one before it, itself answered 200 less
\* than the TTL earlier, makes no generative call and gets the same response.
C4_RepeatIdentical ==
    (pc = "done" /\ issue.repeat) => (genCalls = 0 /\ response = first)

\* C5: a lookup for a name whose cache check comes after another lookup for
\* that name fetched a profile and ran its save, less than the TTL earlier,
\* returns that profile from the cache and sends no search.
C5_RoundTrip ==
    \A j \in DOMAIN tasks :
        (tasks[j].afterPut /\ now - issue.at < Ttl) =>
            /\ tasks[j].hit
            /\ ~tasks[j].called
            /\ \E i \in DOMAIN tasks :
                  /\ i # j
                  /\ tasks[i].name = tasks[j].name
                  /\ tasks[i].put
                  /\ tasks[j].result = tasks[i].nutrients_result

\* the step in which lookup j leaves position `from`
Leaves(j, from) == tasks[j].pc = from /\ j \in DOMAIN tasks' /\ tasks'[j].pc # from

\* C6: a cache check that reaches the table and finds a row written more
\* than 30 days ago goes on to the service; one that finds a row written less
\* than 30 days ago returns the row.
C6_TtlBoundary ==
    [][\A j \in DOMAIN tasks :
          (Leaves(j, "read") /\ tasks'[j].readErr # "OperationalError") =>
              \A r \in RowsFor(store, tasks[j].name) :
                  /\ now > r.last_updated + Ttl =>
                        (~tasks'[j].hit /\ tasks'[j].pc = "http")
                  /\ now < r.last_updated + Ttl =>
                        (tasks'[j].hit /\ tasks'[j].pc = "done"
                         /\ tasks'[j].result = r.data)]_vars

\* the save of lookup j finishes in this step with the table available
Saves(j) ==
    /\ Leaves(j, "commit")
    /\ tasks[j].selectErr = ""
    /\ store' = WriteCache(tasks[j].name, tasks[j].nutrients_result,
                           tasks[j].existing, "", TRUE).table

\* C7: the table never holds two rows for one name, and a save that reaches
\* the table leaves exactly one row for its name, holding the profile just
\* fetched and the time of the save.
C7_Upsert ==
    /\ [](\A r1, r2 \in store : r1.food_name = r2.food_name => r1 = r2)
    /\ [][\A j \in DOMAIN tasks :
             Saves(j) =>
                 RowsFor(store', tasks[j].name)
                     = {Row(tasks[j].name, tasks[j].nutrients_result, now)}]_vars

\* C8: when two lookups of one name both missed the cache and both save,
\* neither save raises a duplicate-key error and, once the second has saved,
\* the table holds one row for the name with one of the two profiles.
C8_ConcurrentUpsert ==
    [][\A i, j \in DOMAIN tasks :
          (/\ i # j
           /\ tasks[i].name = tasks[j].name
           /\ tasks[i].put
           /\ ~tasks[i].afterPut
           /\ ~tasks[j].afterPut
           /\ Saves(j)) =>
              /\ ~tasks[i].conflict
              /\ ~tasks'[j].conflict
              /\ \E r \in store' :
                    /\ RowsFor(store', tasks[j].name) = {r}
                    /\ r.data \in {tasks[i].nutrients_result, tasks[j].nutrients_result}]_vars

\* C9: a lookup whose cache check raised goes on to the service as after a
\* miss, and a lookup whose save raised returns the profile it fetched.
C9_CacheFailureContained ==
    \A i \in DOMAIN tasks :
        /\ tasks[i].readErr # "" => (~tasks[i].hit /\ tasks[i].pc = "http")
        /\ tasks[i].saveFailed =>
              (tasks[i].pc = "done" /\ tasks[i].result = tasks[i].nutrients_result)

C9_Witness ==
    \E i, j \in DOMAIN tasks :
        /\ tasks[i].readErr # ""
        /\ tasks[i].pc = "http"
        /\ tasks[j].saveFailed
        /\ tasks[j].result # _create_default_nutrients

\* a value that is not the three lists of a payload
Malformed(d) ==
    \/ d.j # "object"
    \/ d.has # AllKeys
    \/ \E key \in d.has : d[key].t # "list"

\* C10: a request whose generative reply was empty, no JSON, or JSON without
\* the three lists is answered 200, with three empty lists when the reply
\* held no JSON object at all.
C10_MalformedReplyDegrades ==
    (/\ pc = "done"
     /\ req \in MemoKeys
     /\ gemini_data = memo[MemoGet(req)].val
     /\ (gemini_data = EmptyPayload \/ Malformed(gemini_data))) =>
        /\ response.status = 200
        /\ (gemini_data = EmptyPayload \/ gemini_data.j # "object") =>
              response = Reply(200, <<>>, <<>>, <<>>)

\* C11: when the generative call of a request ends with nothing memoized (it
\* raised), the request is answered 500 in that step, no lookup exists for
\* it and the nutrition_cache table is as it was.
C11_TransportFailureFatal ==
    [][(pc = "generate" /\ pc' # "generate" /\ memo' = memo) =>
          /\ pc' = "done"
          /\ response' = HTTPException(500)
          /\ tasks' = <<>>
          /\ store' = store]_vars

C11_Witness ==
    /\ pc = "done"
    /\ genCalls = 1
    /\ req \notin MemoKeys
    /\ response = HTTPException(500)
    /\ tasks = <<>>
    /\ store # {}

\* C12: lookups exist only once the generative call of the request has
\* returned and its reply is parsed: the request is then past the call, the
\* parsed reply is memoized under its key, and the lookups are those of the
\* names in that reply.
C12_GenerateBeforeEnrich ==
    /\ pc = "generate" => tasks = <<>>
    /\ tasks # <<>> =>
          /\ pc \in {"enrich", "done"}
          /\ req \in MemoKeys
          /\ gemini_data = memo[MemoGet(req)].val
          /\ [k \in DOMAIN tasks |-> tasks[k].name] = CollectNames(gemini_data).food_names

C12_Witness ==
    /\ pc = "enrich"
    /\ genCalls = 1
    /\ \E i \in DOMAIN tasks : tasks[i].called

\* a step of lookup i
LookupStep(i) ==
    \/ \E dbOk \in BOOLEAN : CacheRead(i, dbOk)
    \/ \E reply \in UsdaReplies : UsdaReturns(i, reply)
    \/ \E dbOk \in BOOLEAN : SaveSelect(i, dbOk)
    \/ \E dbOk \in BOOLEAN : SaveFinish(i, dbOk)

\* C13: while the batch runs every lookup that has not returned can take its
\* next step whatever the others are doing, and a request is answered only
\* when every lookup of its batch has returned.
C13_BatchAndJoin ==
    /\ pc = "enrich" =>
          \A i \in DOMAIN tasks : tasks[i].pc # "done" => ENABLED LookupStep(i)
    /\ pc = "done" => \A i \in DOMAIN tasks : tasks[i].pc = "done"

\* every lookup of a batch of two is waiting for the nutrition service
C13_Witness ==
    /\ pc = "enrich"
    /\ Len(tasks) >= 2
    /\ \A i \in DOMAIN tasks : tasks[i].pc = "http"

\* C14: the batch holds one lookup for each distinct name of the two lists.
C14_OneLookupPerName ==
    pc \in {"enrich", "done"} =>
        \A i, j \in DOMAIN tasks : tasks[i].name = tasks[j].name => i = j

\* an entry with both required fields, each a string
WellFormedFood(item) == IsFood(item) /\ item.name # NoneCountry /\ item.reason # NoneCountry

NameAndReason(items) ==
    LET kept == SelectSeq(items, WellFormedFood)
    IN  [n \in 1..Len(kept) |-> <<kept[n].name, kept[n].reason>>]

\* C15: a request whose payload holds the three lists is answered 200, and
\* its lists hold, in payload order, exactly the entries that have both
\* required fields as strings.
C15_AssemblyDropsMalformed ==
    (/\ pc = "done"
     /\ req \in MemoKeys
     /\ gemini_data = memo[MemoGet(req)].val
     /\ gemini_data.j = "object"
     /\ \A key \in AllKeys : Get(gemini_data, key).t = "list") =>
        /\ response.status = 200
        /\ [n \in DOMAIN response.recommended_foods |->
               <<response.recommended_foods[n].name, response.recommended_foods[n].reason>>]
              = NameAndReason(Get(gemini_data, "recommended_foods").items)
        /\ [n \in DOMAIN response.foods_to_avoid |->
               <<response.foods_to_avoid[n].name, response.foods_to_avoid[n].reason>>]
              = NameAndReason(Get(gemini_data, "foods_to_avoid").items)
        /\ response.dietary_principles = Principles(Get(gemini_data, "dietary_principles").items)

\* the amount as a number: every number and every numeric string, zero too
NumberOf(amount) == IF amount.t \in {"num", "str"} THEN Some(amount.v) ELSE None

RECURSIVE NumbersOf(_, _)
NumbersOf(foodNutrients, profile) ==
    IF foodNutrients = <<>> THEN profile
    ELSE LET nutrient_item == Head(foodNutrients)
         IN  NumbersOf(Tail(foodNutrients),
                 IF nutrient_item.nutrientName \in DOMAIN nutrient_map
                 THEN [profile EXCEPT ![nutrient_map[nutrient_item.nutrientName]] =
                          NumberOf(nutrient_item.amount)]
                 ELSE profile)

\* C16: the profile a lookup fetched holds, for each mapped nutrient of the
\* reply, the amount as a number when it is a number or a numeric string
\* (zero too), and unknown otherwise.
C16_NumericExtraction ==
    \A i \in DOMAIN tasks :
        (tasks[i].pc \in {"save", "commit"} \/ tasks[i].put) =>
            \E reply \in UsdaReplies :
                /\ reply.foods # <<>>
                /\ tasks[i].nutrients_result
                      = NumbersOf(reply.foods[1], _create_default_nutrients)

\* a response with the three lists built from the three lists of the payload,
\* every food item with the six nutrient fields, each a number or unknown
Complete(r) ==
    /\ r.status = 200
    /\ \A key \in AllKeys : Get(gemini_data, key).t = "list"
    /\ Len(r.recommended_foods) = Len(SelectSeq(Get(gemini_data, "recommended_foods").items, IsFood))
    /\ Len(r.foods_to_avoid) = Len(SelectSeq(Get(gemini_data, "foods_to_avoid").items, IsFood))
    /\ Len(r.dietary_principles)
          = Len(SelectSeq(Get(gemini_data, "dietary_principles").items, IsPrinciple))
    /\ \A items \in {r.recommended_foods, r.foods_to_avoid} :
          \A n \in DOMAIN items :
              /\ DOMAIN items[n].nutrients = NutrientFields
              /\ \A f \in NutrientFields : DOMAIN items[n].nutrients[f] = {"some", "v"}

ExplicitError(r) == r \in {HTTPException(400), HTTPException(500)}

\* the awaits a lookup still has before it returns
AwaitsLeft(t) ==
    CASE t.pc = "read" -> 4
      [] t.pc = "http" -> 3
      [] t.pc = "save" -> 2
      [] t.pc = "commit" -> 1
      [] t.pc = "done" -> 0

RECURSIVE SumAwaits(_)
SumAwaits(ts) == IF ts = <<>> THEN 0 ELSE AwaitsLeft(Head(ts)) + SumAwaits(Tail(ts))

\* the largest batch a payload of Docs gives
MaxBatch ==
    LET sizes == {Len(CollectNames(d).food_names) : d \in Docs}
    IN  CHOOSE n \in sizes : \A m \in sizes : m <= n

\* a bound on the steps the request in flight still takes
Remaining ==
    CASE pc = "generate" -> 2 + 4 * MaxBatch
      [] pc = "enrich" -> 1 + SumAwaits(tasks)
      [] OTHER -> 0

\* C17: a request being handled can always take a step when its awaited
\* calls return or raise, and each of its steps brings it nearer to its
\* answer, so it is answered; an answer is a complete response or an error
\* with nothing else in it, and nothing is returned before the answer.
C17_TwoOutcomes ==
    /\ [](pc = "done" => (Complete(response) \/ ExplicitError(response)))
    /\ [](pc # "done" => response = NoResponse)
    /\ [](pc \in {"generate", "enrich"} => ENABLED RequestStep)
    /\ [][(pc \in {"generate", "enrich"} /\ <<pc, tasks>>' # <<pc, tasks>>) =>
             Remaining' < Remaining]_vars

C17_Witness ==
    /\ pc = "done"
    /\ Complete(response)
    /\ \E i \in DOMAIN tasks : tasks[i].failed
    /\ \E n \in DOMAIN response.foods_to_avoid :
          response.foods_to_avoid[n].nutrients # _create_default_nutrients

\* C18: a request makes at most one generative call, exactly one while the
\* call is awaited, and a lookup whose search call has returned or raised is
\* not waiting for the service again.
C18_NoRetry ==
    /\ genCalls \in {0, 1}
    /\ pc = "generate" => genCalls = 1
    /\ (pc \in {"enrich", "done"} /\ req.value # "" /\ req \notin MemoKeys) => genCalls = 1
    /\ \A i \in DOMAIN tasks : tasks[i].called => tasks[i].pc # "http"

C18_Witness ==
    /\ pc = "done"
    /\ genCalls = 1
    /\ \E i \in DOMAIN tasks : tasks[i].failed /\ tasks[i].pc = "done"
    /\ \E i \in DOMAIN tasks : tasks[i].called /\ ~tasks[i].failed /\ ~tasks[i].put

\* C19: a lookup whose search failed or found no food returns in that step
\* with all fields unknown, leaves every row of the table as it is, and
\* never runs the save.
C19_FailedLookupKeepsCache ==
    /\ [](\A j \in DOMAIN tasks :
             (tasks[j].called /\ tasks[j].nutrients_result = _create_default_nutrients) =>
                 /\ tasks[j].pc = "done"
                 /\ ~tasks[j].put
                 /\ tasks[j].result = _create_default_nutrients)
    /\ [][\A j \in DOMAIN tasks :
             (/\ Leaves(j, "http")
              /\ tasks'[j].nutrients_result = _create_default_nutrients) =>
                 store' = store]_vars

\* a failed lookup for a name that has a row
C19_Witness ==
    \E j \in DOMAIN tasks :
        /\ tasks[j].failed
        /\ tasks[j].pc = "done"
        /\ \E r \in RowsFor(store, tasks[j].name) : r.data # _create_default_nutrients

\* the generative call of the request in flight raises in this step
Raises == pc = "generate" /\ pc' = "done" /\ gemini_data' = EmptyPayload

\* the generative call of the request in flight returns in this step
Returns == pc = "generate" /\ pc' # "generate" /\ ~Raises

\* what C20 says of a call: a returned reply is memoized under the request's
\* key, degraded or not, and a raised exception memoizes nothing
CallMemoized ==
    /\ Returns => (req \in MemoKeys' /\ memo'[Len(memo')] = [key |-> req, val |-> gemini_data'])
    /\ Raises => req \notin MemoKeys'

\* what C20 says of a request: a call is made exactly when the key is not
\* memoized, and a memoized key is answered from its entry
ServedFromMemo ==
    /\ pc = "generate" => (req \notin MemoKeys /\ genCalls = 1)
    /\ (pc \in {"enrich", "done"} /\ genCalls = 0 /\ req.value # "") =>
          (req \in MemoKeys /\ gemini_data = memo[MemoGet(req)].val)
    /\ (pc \in {"enrich", "done"} /\ genCalls = 1 /\ req \in MemoKeys) =>
          gemini_data = memo[MemoGet(req)].val

====
